---- MODULE Spec2Model ----
(***************************************************************************)
(* Model of custom_components/smartthinq_sensors/select.py: the select     *)
(* descriptors, the existence predicate, the discovery handler and the     *)
(* LGESelect entity.                                                       *)
(*                                                                         *)
(* Python values are tagged records: [t |-> "none"], [t |-> "int", v],     *)
(* [t |-> "str", v], [t |-> "enum", v], [t |-> "list", v].  A Python str   *)
(* is a sequence of characters, so that str() and int() are computed and   *)
(* not assumed to be inverse to each other.                                *)
(***************************************************************************)
EXTENDS Integers, Sequences, FiniteSets, TLC

VARIABLES device, registered, subscribed, notified, calls, exist_ret

vars == <<device, registered, subscribed, notified, calls, exist_ret>>

\* ------------------------------------------------------------------ bounds
\* Number of select-option calls the host may have in flight at once.
MaxCalls == 2

\* Notifications counted per device.
MaxNotified == 2

\* ------------------------------------------------------- Python primitives
None == [t |-> "none"]
PInt(n) == [t |-> "int", v |-> n]
PStr(s) == [t |-> "str", v |-> s]
PEnum(m) == [t |-> "enum", v |-> m]
PList(l) == [t |-> "list", v |-> l]

DigitChar == <<"0", "1", "2", "3", "4", "5", "6", "7", "8", "9">>

IsDigit(c) == \E i \in 1..10 : DigitChar[i] = c

DigitVal(c) == (CHOOSE i \in 1..10 : DigitChar[i] = c) - 1

\* str(n) of a Python int: its decimal digits, most significant first.
RECURSIVE str(_)
str(n) ==
    IF n < 0 THEN <<"-">> \o str(0 - n)
    ELSE IF n < 10 THEN <<DigitChar[n + 1]>>
    ELSE str(n \div 10) \o <<DigitChar[(n % 10) + 1]>>

RECURSIVE ParseDigits(_, _)
ParseDigits(s, acc) ==
    IF s = <<>> THEN acc
    ELSE ParseDigits(Tail(s), acc * 10 + DigitVal(Head(s)))

\* int(s) of a Python str: ValueError unless s is a non-empty digit string.
int(s) ==
    IF s # <<>> /\ \A i \in 1..Len(s) : IsDigit(s[i])
    THEN [raised |-> FALSE, v |-> ParseDigits(s, 0)]
    ELSE [raised |-> TRUE, v |-> 0]

\* bool(x) of a capability list: None and [] are falsy.
bool(x) == x.t = "list" /\ x.v # <<>>

\* (x or []) of a capability list.
OrEmpty(x) == IF bool(x) THEN x.v ELSE <<>>

\* Elements of a sequence / keys of a dict-like function.
Range(s) == {s[i] : i \in 1..Len(s)}

\* ------------------------------------------------------------- enum labels
ACAutoDryMode == <<"OFF", "MIN_10", "MIN_30", "MIN_60", "AI">>

AUTO_DRY_LABEL ==
    [m \in Range(ACAutoDryMode) |->
        CASE m = "OFF" -> <<"kkeo", "jim">>
          [] m = "MIN_10" -> <<"1", "0", "bun">>
          [] m = "MIN_30" -> <<"3", "0", "bun">>
          [] m = "MIN_60" -> <<"6", "0", "bun">>
          [] m = "AI" -> <<"A", "I", "geon", "jo">>]

\* {v: k for k, v in AUTO_DRY_LABEL.items()}: later keys overwrite earlier
\* ones, so a label maps to the last enum member that carries it.
AUTO_DRY_FROM_LABEL ==
    [l \in {AUTO_DRY_LABEL[m] : m \in DOMAIN AUTO_DRY_LABEL} |->
        LET idx == {i \in 1..Len(ACAutoDryMode) : AUTO_DRY_LABEL[ACAutoDryMode[i]] = l}
        IN ACAutoDryMode[CHOOSE i \in idx : \A j \in idx : j <= i]]

\* Range accepted by the vertical-wind-step value function.
VSTEP_MIN == 1
VSTEP_MAX == 6

\* ------------------------------------------------------ select descriptors
\* A descriptor's optional callables are Fn(<name>) or None.
Fn(name) == [t |-> "fn", v |-> name]

DISPLAY_SCROLL_SPEED == "display_scroll_speed"
WEIGHT_UNIT == "weight_unit"

WASH_DEV_SELECT ==
    << [key |-> "course_selection",
        options_fn |-> Fn("course_list"),
        select_option_fn |-> Fn("select_start_course"),
        available_fn |-> Fn("select_course_enabled"),
        value_fn |-> Fn("selected_course")] >>

MICROWAVE_SELECT ==
    << [key |-> DISPLAY_SCROLL_SPEED,
        options_fn |-> Fn("display_scroll_speeds"),
        select_option_fn |-> Fn("set_display_scroll_speed"),
        available_fn |-> None,
        value_fn |-> None],
       [key |-> WEIGHT_UNIT,
        options_fn |-> Fn("defrost_weight_units"),
        select_option_fn |-> Fn("set_defrost_weight_unit"),
        available_fn |-> None,
        value_fn |-> None] >>

AC_VSTEP_SELECT ==
    << [key |-> "ac_vertical_wind_step",
        options_fn |-> Fn("vstep_options"),
        select_option_fn |-> Fn("vstep_select"),
        available_fn |-> Fn("vstep_available"),
        value_fn |-> Fn("vstep_value")] >>

AC_AUTODRY_SELECT ==
    << [key |-> "ac_autodry_mode",
        options_fn |-> Fn("autodry_options"),
        select_option_fn |-> Fn("autodry_select"),
        available_fn |-> Fn("autodry_available"),
        value_fn |-> Fn("autodry_value")] >>

\* Washer-like device types of the wideq package.
WM_DEVICE_TYPES == <<"WASHER", "DRYER">>

\* SELECT_ENTITIES.items(), in insertion order.
SELECT_ENTITIES ==
    << <<"MICROWAVE", MICROWAVE_SELECT>>,
       <<"AC", AC_VSTEP_SELECT>> >>
    \o [i \in 1..Len(WM_DEVICE_TYPES) |-> <<WM_DEVICE_TYPES[i], WASH_DEV_SELECT>>]

\* [f(m) for m in l]
RECURSIVE MapStr(_)
MapStr(l) == IF l = <<>> THEN <<>> ELSE <<str(Head(l))>> \o MapStr(Tail(l))

RECURSIVE MapLabel(_)
MapLabel(l) == IF l = <<>> THEN <<>> ELSE <<AUTO_DRY_LABEL[Head(l)]>> \o MapLabel(Tail(l))

\* options_fn(x): the option list, a sequence of Python strs.
options_fn(desc, x) ==
    CASE desc.options_fn.v = "course_list" -> x.device.course_list
      [] desc.options_fn.v = "display_scroll_speeds" -> x.device.display_scroll_speeds
      [] desc.options_fn.v = "defrost_weight_units" -> x.device.defrost_weight_units
      [] desc.options_fn.v = "vstep_options" -> MapStr(OrEmpty(x.device.vertical_step_modes))
      [] desc.options_fn.v = "autodry_options" -> MapLabel(OrEmpty(x.device.auto_dry_modes))

\* select_option_fn(x, option): evaluating the lambda either raises, or
\* yields the awaitable of one device method called with one argument.
Raised == [raised |-> TRUE]
Awaitable(method, arg) == [raised |-> FALSE, method |-> method, arg |-> arg]

select_option_fn(desc, x, option) ==
    CASE desc.select_option_fn.v = "select_start_course" ->
            Awaitable("select_start_course", PStr(option))
      [] desc.select_option_fn.v = "set_display_scroll_speed" ->
            Awaitable("set_display_scroll_speed", PStr(option))
      [] desc.select_option_fn.v = "set_defrost_weight_unit" ->
            Awaitable("set_defrost_weight_unit", PStr(option))
      [] desc.select_option_fn.v = "vstep_select" ->
            IF int(option).raised THEN Raised
            ELSE Awaitable("set_vertical_step_mode", PInt(int(option).v))
      [] desc.select_option_fn.v = "autodry_select" ->
            IF option \in DOMAIN AUTO_DRY_FROM_LABEL
            THEN Awaitable("set_auto_dry_mode", PEnum(AUTO_DRY_FROM_LABEL[option]))
            ELSE Raised

\* Faulty variant of value_fn: the lower end of the vertical-step range is
\* excluded (1 < v instead of 1 <= v).
value_fn_strict_lower(desc, x) ==
    CASE desc.value_fn.v = "selected_course" -> x.device.selected_course
      [] desc.value_fn.v = "vstep_value" ->
            LET v == x.device.vertical_step_mode
            IN IF v.t = "int" /\ VSTEP_MIN < v.v /\ v.v <= VSTEP_MAX
               THEN PStr(str(v.v))
               ELSE None
      [] desc.value_fn.v = "autodry_value" ->
            LET m == x.device.auto_dry_mode
            IN IF m.t = "enum" /\ m.v \in DOMAIN AUTO_DRY_LABEL
               THEN PStr(AUTO_DRY_LABEL[m.v])
               ELSE None

\* value_fn(x): a Python str or None.
value_fn(desc, x) ==
    CASE desc.value_fn.v = "selected_course" -> x.device.selected_course
      [] desc.value_fn.v = "vstep_value" ->
            LET v == x.device.vertical_step_mode
            IN IF v.t = "int" /\ VSTEP_MIN <= v.v /\ v.v <= VSTEP_MAX
               THEN PStr(str(v.v))
               ELSE None
      [] desc.value_fn.v = "autodry_value" ->
            LET m == x.device.auto_dry_mode
            IN IF m.t = "enum" /\ m.v \in DOMAIN AUTO_DRY_LABEL
               THEN PStr(AUTO_DRY_LABEL[m.v])
               ELSE None

\* available_fn(x)
available_fn(desc, x) ==
    CASE desc.available_fn.v = "select_course_enabled" -> x.device.select_course_enabled
      [] desc.available_fn.v = "vstep_available" -> bool(x.device.vertical_step_modes)
      [] desc.available_fn.v = "autodry_available" -> bool(x.device.auto_dry_modes)

\* ------------------------------------------------- devices (LGEDevice api)
Devices == {"ac1", "mw1", "wm1"}

DeviceTypeOf(d) ==
    CASE d = "ac1" -> "AC"
      [] d = "mw1" -> "MICROWAVE"
      [] d = "wm1" -> "WASHER"

\* [1, .., n] as a capability list of IntEnum members (int(m) is the member's value).
Steps(n) == [i \in 1..n |-> i]

\* Capability lists a device may report for the vertical wind step.
VStepCapabilities == {None, PList(<<>>), PList(Steps(VSTEP_MAX \div 2)), PList(Steps(VSTEP_MAX))}

\* Values the state may hold for the current vertical wind step.
VStepModes ==
    {None, PStr(<<"3">>)} \cup {PInt(n) : n \in (VSTEP_MIN - 1)..(VSTEP_MAX + 1)}

AutoDryCapabilities ==
    {None, PList(<<>>), PList(<<"OFF", "AI">>), PList(ACAutoDryMode)}

AutoDryModes ==
    {None, PStr(<<"@AIAUTODRY">>)} \cup {PEnum(m) : m \in Range(ACAutoDryMode)}

COURSE_LIST == << <<"Cotton">>, <<"Wool">> >>
SCROLL_SPEEDS == << <<"Slow">>, <<"Fast">> >>
WEIGHT_UNITS == << <<"Kg">>, <<"Lb">> >>

Courses == {None} \cup {PStr(c) : c \in Range(COURSE_LIST)}

\* api.state: None before the first status, else a snapshot whose
\* device_features dict maps some feature keys to raw values.
Snapshot(f) == [t |-> "state", device_features |-> f]

FeatureValues(k) == IF k = DISPLAY_SCROLL_SPEED THEN Range(SCROLL_SPEEDS) ELSE Range(WEIGHT_UNITS)

MicrowaveKeys == {DISPLAY_SCROLL_SPEED, WEIGHT_UNIT}

MicrowaveStates ==
    {None} \cup
    UNION {{Snapshot(f) : f \in {g \in [K -> Range(SCROLL_SPEEDS) \cup Range(WEIGHT_UNITS)] :
                                    \A k \in K : g[k] \in FeatureValues(k)}} :
           K \in SUBSET MicrowaveKeys}

\* Keys a device's reported feature map may contain.
FeatureKeys ==
    MicrowaveKeys \cup {"course_selection", "ac_vertical_wind_step", "ac_autodry_mode"}

\* The state a device is in when the integration first sees it.
DefaultDevice(d) ==
    [unique_id |-> d,
     type |-> DeviceTypeOf(d),
     available |-> TRUE,
     available_features |-> IF d = "mw1" THEN MicrowaveKeys ELSE {},
     state |-> IF d = "mw1"
               THEN Snapshot([k \in MicrowaveKeys |-> IF k = DISPLAY_SCROLL_SPEED
                                                       THEN <<"Slow">> ELSE <<"Kg">>])
               ELSE Snapshot(<<>>),
     device |->
        CASE d = "ac1" ->
                [vertical_step_modes |-> PList(Steps(VSTEP_MAX)),
                 vertical_step_mode |-> PInt(3),
                 auto_dry_modes |-> PList(<<"OFF", "AI">>),
                 auto_dry_mode |-> PEnum("AI")]
          [] d = "mw1" ->
                [display_scroll_speeds |-> SCROLL_SPEEDS,
                 defrost_weight_units |-> WEIGHT_UNITS]
          [] d = "wm1" ->
                [course_list |-> COURSE_LIST,
                 select_course_enabled |-> TRUE,
                 selected_course |-> None]]

\* The device collaborator applying a successful set_* call to its status.
DeviceApply(x, req) ==
    CASE req.method = "set_vertical_step_mode" ->
            [x EXCEPT !.device.vertical_step_mode = req.arg]
      [] req.method = "set_auto_dry_mode" ->
            [x EXCEPT !.device.auto_dry_mode = req.arg]
      [] req.method = "select_start_course" ->
            [x EXCEPT !.device.selected_course = req.arg]
      [] req.method \in {"set_display_scroll_speed", "set_defrost_weight_unit"} ->
            LET k == IF req.method = "set_display_scroll_speed"
                     THEN DISPLAY_SCROLL_SPEED ELSE WEIGHT_UNIT
                old == IF x.state = None THEN <<>> ELSE x.state.device_features
            IN [x EXCEPT !.state =
                    Snapshot([j \in DOMAIN old \cup {k} |-> IF j = k THEN req.arg.v ELSE old[j]])]

\* ----------------------------------------------------------------- entity
\* Faulty variant of _select_exist: the value_fn shortcut is missing.
_select_exist_features_only(lge_device, select_desc) ==
    IF select_desc.key \in lge_device.available_features THEN TRUE
    ELSE FALSE

\* _select_exist(lge_device, select_desc)
_select_exist(lge_device, select_desc) ==
    IF select_desc.value_fn # None THEN TRUE
    ELSE IF select_desc.key \in lge_device.available_features THEN TRUE
    ELSE FALSE

\* LGESelect.__init__(api, description): _attr_options is captured here.
LGESelect(api, description) ==
    [api |-> api.unique_id,
     desc |-> description,
     unique_id |-> <<api.unique_id, description.key, "select">>,
     options |-> options_fn(description, api)]

\* LGESelect.current_option
current_option(self, api) ==
    IF self.desc.value_fn # None THEN value_fn(self.desc, api)
    ELSE IF api.state # None
         THEN IF self.desc.key \in DOMAIN api.state.device_features
              THEN PStr(api.state.device_features[self.desc.key])
              ELSE None
         ELSE None

\* Faulty variant of LGESelect.available: the device flag is not consulted.
available_without_device_flag(self, api) ==
    IF self.desc.available_fn # None
    THEN available_fn(self.desc, api)
    ELSE TRUE

\* LGESelect.available
available(self, api) ==
    LET is_avail == IF self.desc.available_fn # None
                    THEN available_fn(self.desc, api)
                    ELSE TRUE
    IN api.available /\ is_avail

\* ------------------------------------------------------- discovery handler
AllDescriptors ==
    Range(WASH_DEV_SELECT) \cup Range(MICROWAVE_SELECT)
        \cup Range(AC_VSTEP_SELECT) \cup Range(AC_AUTODRY_SELECT)

RECURSIVE Concat(_)
Concat(ss) == IF ss = <<>> THEN <<>> ELSE Head(ss) \o Concat(Tail(ss))

\* The dict a notification carries for a set of devices: type -> [device ids].
RECURSIVE SeqOf(_)
SeqOf(S) == IF S = {} THEN <<>> ELSE LET d == CHOOSE x \in S : TRUE IN <<d>> \o SeqOf(S \ {d})

NotificationOf(S) ==
    [t \in {DeviceTypeOf(d) : d \in S} |-> SeqOf({d \in S : DeviceTypeOf(d) = t})]

\* The list comprehension of _async_discover_device, in its iteration order.
lge_select(lge_devices) ==
    Concat([i \in 1..Len(SELECT_ENTITIES) |->
        LET dev_type == SELECT_ENTITIES[i][1]
            select_descs == SELECT_ENTITIES[i][2]
            devs == IF dev_type \in DOMAIN lge_devices THEN lge_devices[dev_type] ELSE <<>>
        IN Concat([j \in 1..Len(select_descs) |->
              LET kept == SelectSeq(devs, LAMBDA d : _select_exist(device[d], select_descs[j]))
              IN [k \in 1..Len(kept) |-> LGESelect(device[kept[k]], select_descs[j])]])])

\* The host's entity registration: an entity whose unique id is already
\* registered is rejected, the others are added in order.
RECURSIVE async_add_entities(_, _)
async_add_entities(reg, batch) ==
    IF batch = <<>> THEN reg
    ELSE async_add_entities(
            IF \E e \in reg : e.unique_id = Head(batch).unique_id
            THEN reg ELSE reg \cup {Head(batch)},
            Tail(batch))

\* Faulty variant of _async_discover_device: entities submitted again first
\* displace the registered ones with the same unique id.
_async_discover_device_resubmit(lge_devices) ==
    IF DOMAIN lge_devices = {}
    THEN UNCHANGED <<registered, notified>>
    ELSE /\ registered' =
              async_add_entities(
                  {e \in registered :
                      \A i \in 1..Len(lge_select(lge_devices)) :
                          lge_select(lge_devices)[i].unique_id # e.unique_id},
                  lge_select(lge_devices))
         /\ notified' =
              [d \in Devices |->
                  IF DeviceTypeOf(d) \in DOMAIN lge_devices
                        /\ d \in Range(lge_devices[DeviceTypeOf(d)])
                        /\ notified[d] < MaxNotified
                  THEN notified[d] + 1 ELSE notified[d]]

\* How many non-empty notifications have carried each device, counted up to
\* MaxNotified (a record of the run, not state of the program).
Notify(n, lge_devices) ==
    [d \in Devices |->
        IF DeviceTypeOf(d) \in DOMAIN lge_devices
              /\ d \in Range(lge_devices[DeviceTypeOf(d)])
              /\ n[d] < MaxNotified
        THEN n[d] + 1 ELSE n[d]]

\* _async_discover_device(lge_devices)
_async_discover_device(lge_devices) ==
    IF DOMAIN lge_devices = {}
    THEN UNCHANGED <<registered, notified>>
    ELSE /\ registered' = async_add_entities(registered, lge_select(lge_devices))
         /\ notified' = Notify(notified, lge_devices)

\* async_setup_entry: the eager call with the configured devices, then the
\* subscription to LGE_DISCOVERY_NEW.
async_setup_entry(lge_cfg_devices) ==
    /\ ~subscribed
    /\ _async_discover_device(lge_cfg_devices)
    /\ subscribed' = TRUE
    /\ UNCHANGED <<device, calls, exist_ret>>

\* A LGE_DISCOVERY_NEW dispatch reaching the connected handler.
DiscoveryNew(lge_devices) ==
    /\ subscribed
    /\ _async_discover_device(lge_devices)
    /\ UNCHANGED <<device, subscribed, calls, exist_ret>>

\* ------------------------------------------------- reports from the device
\* A device attribute changes only while some registered entity reads it.
Hosts(d, keys) == \E e \in registered : e.api = d /\ e.desc.key \in keys

\* No registered entity of the device belongs to another selection point.
OnlyHosts(d, keys) == \A e \in registered : e.api = d => e.desc.key \in keys

ReportAvailable(d) ==
    /\ Hosts(d, FeatureKeys)
    /\ device' = [device EXCEPT ![d].available = ~@]
    /\ UNCHANGED <<registered, subscribed, notified, calls, exist_ret>>

ReportVStepModes(d) ==
    /\ DeviceTypeOf(d) = "AC"
    /\ OnlyHosts(d, {"ac_vertical_wind_step"})
    /\ \E l \in VStepCapabilities \ {device[d].device.vertical_step_modes} :
          device' = [device EXCEPT ![d].device.vertical_step_modes = l]
    /\ UNCHANGED <<registered, subscribed, notified, calls, exist_ret>>

ReportVStepMode(d) ==
    /\ Hosts(d, {"ac_vertical_wind_step"})
    /\ \E m \in VStepModes \ {device[d].device.vertical_step_mode} :
          device' = [device EXCEPT ![d].device.vertical_step_mode = m]
    /\ UNCHANGED <<registered, subscribed, notified, calls, exist_ret>>

ReportAutoDryModes(d) ==
    /\ Hosts(d, {"ac_autodry_mode"})
    /\ \E l \in AutoDryCapabilities \ {device[d].device.auto_dry_modes} :
          device' = [device EXCEPT ![d].device.auto_dry_modes = l]
    /\ UNCHANGED <<registered, subscribed, notified, calls, exist_ret>>

ReportAutoDryMode(d) ==
    /\ Hosts(d, {"ac_autodry_mode"})
    /\ \E m \in AutoDryModes \ {device[d].device.auto_dry_mode} :
          device' = [device EXCEPT ![d].device.auto_dry_mode = m]
    /\ UNCHANGED <<registered, subscribed, notified, calls, exist_ret>>

ReportCourse(d) ==
    /\ Hosts(d, {"course_selection"})
    /\ \E c \in Courses, en \in BOOLEAN :
          /\ <<c, en>> # <<device[d].device.selected_course, device[d].device.select_course_enabled>>
          /\ device' = [device EXCEPT ![d].device.selected_course = c,
                                      ![d].device.select_course_enabled = en]
    /\ UNCHANGED <<registered, subscribed, notified, calls, exist_ret>>

ReportStatus(d) ==
    /\ Hosts(d, MicrowaveKeys)
    /\ \E st \in MicrowaveStates \ {device[d].state} :
          device' = [device EXCEPT ![d].state = st]
    /\ UNCHANGED <<registered, subscribed, notified, calls, exist_ret>>

ReportFeatures(d) ==
    /\ DeviceTypeOf(d) = "MICROWAVE"
    /\ \E F \in (SUBSET MicrowaveKeys) \ {device[d].available_features} :
          device' = [device EXCEPT ![d].available_features = F]
    /\ UNCHANGED <<registered, subscribed, notified, calls, exist_ret>>

\* ------------------------------------------------- LGESelect.select option
CallIds == 1..MaxCalls

Idle == [pc |-> "idle"]

\* Options a caller may pass: this layer does not validate them against
\* _attr_options, so a caller may pass a string the list does not hold.
OtherOptions == {<<"7">>, <<"x">>}

OptionInputs(self) == Range(self.options) \cup OtherOptions

\* async_select_option up to its await: select_option_fn is evaluated; an
\* exception in it propagates, else the device call is awaited.
async_select_option_enter(self, api, option) ==
    LET r == select_option_fn(self.desc, api, option)
    IN IF r.raised
       THEN [pc |-> "raised", uid |-> self.unique_id, forwarded |-> FALSE, signals |-> 0]
       ELSE [pc |-> "awaiting", uid |-> self.unique_id, option |-> option,
             req |-> r, signals |-> 0]

\* The await returned: self._api.async_set_updated() and return.
async_select_option_resume(call) ==
    [pc |-> "done", uid |-> call.uid, forwarded |-> TRUE, signals |-> call.signals + 1]

\* Faulty variant of the failure path: the update is signalled in a finally.
async_select_option_throw_signalling(call) ==
    [pc |-> "raised", uid |-> call.uid, forwarded |-> TRUE, signals |-> call.signals + 1]

\* The await raised: the exception propagates out of async_select_option.
async_select_option_throw(call) ==
    [pc |-> "raised", uid |-> call.uid, forwarded |-> TRUE, signals |-> call.signals]

\* Faulty variant of SelectOption: a per-entity guard refuses a call while
\* another call on the same entity is awaiting.
SelectOption_serialized(c, self, option) ==
    /\ calls[c] = Idle
    /\ self \in registered
    /\ option \in OptionInputs(self)
    /\ \A o \in CallIds : calls[o].pc = "awaiting" => calls[o].uid # self.unique_id
    /\ calls' = [calls EXCEPT ![c] = async_select_option_enter(self, device[self.api], option)]
    /\ UNCHANGED <<device, registered, subscribed, notified, exist_ret>>

\* The host calls async_select_option(option) on a registered entity.
SelectOption(c, self, option) ==
    /\ calls[c] = Idle
    /\ self \in registered
    /\ option \in OptionInputs(self)
    /\ calls' = [calls EXCEPT ![c] = async_select_option_enter(self, device[self.api], option)]
    /\ UNCHANGED <<device, registered, subscribed, notified, exist_ret>>

\* Faulty variant of SelectOptionResume: _attr_options is recomputed from
\* the device after the write.
SelectOptionResume_recapture(c) ==
    /\ calls[c].pc = "awaiting"
    /\ \E self \in registered :
          /\ self.unique_id = calls[c].uid
          /\ device' = [device EXCEPT ![self.api] = DeviceApply(@, calls[c].req)]
          /\ registered' = (registered \ {self})
                \cup {[self EXCEPT !.options = options_fn(self.desc, device'[self.api])]}
    /\ calls' = [calls EXCEPT ![c] = async_select_option_resume(@)]
    /\ UNCHANGED <<subscribed, notified, exist_ret>>

\* The device completes the awaited write of call c; the coroutine resumes
\* and signals the update before it yields again.
SelectOptionResume(c) ==
    /\ calls[c].pc = "awaiting"
    /\ \E self \in registered :
          /\ self.unique_id = calls[c].uid
          /\ device' = [device EXCEPT ![self.api] = DeviceApply(@, calls[c].req)]
    /\ calls' = [calls EXCEPT ![c] = async_select_option_resume(@)]
    /\ UNCHANGED <<registered, subscribed, notified, exist_ret>>

\* The device rejects the awaited write of call c.
SelectOptionThrow(c) ==
    /\ calls[c].pc = "awaiting"
    /\ calls' = [calls EXCEPT ![c] = async_select_option_throw(@)]
    /\ UNCHANGED <<device, registered, subscribed, notified, exist_ret>>

\* The host has taken the result of call c (the return or the exception).
SelectOptionReturn(c) ==
    /\ calls[c].pc \in {"done", "raised"}
    /\ calls' = [calls EXCEPT ![c] = Idle]
    /\ UNCHANGED <<device, registered, subscribed, notified, exist_ret>>

\* The host reads current_option and available: neither assigns anything.
HostReads(self) ==
    /\ self \in registered
    /\ current_option(self, device[self.api]).t \in {"none", "str"}
    /\ available(self, device[self.api]) \in BOOLEAN
    /\ UNCHANGED vars

\* A caller applies the existence predicate to a device and a descriptor.
CheckExist(d, select_desc) ==
    /\ exist_ret' = [called |-> TRUE, api |-> d, desc |-> select_desc,
                     ret |-> _select_exist(device[d], select_desc)]
    /\ UNCHANGED <<device, registered, subscribed, notified, calls>>

\* ---------------------------------------------------------- specifications
NoCalls == [c \in CallIds |-> Idle]

NotCalled == [called |-> FALSE]

\* The platform: setup, discovery notifications, and the device reports that
\* discovery and the registered entities depend on.
Init ==
    /\ device = [d \in Devices |-> DefaultDevice(d)]
    /\ registered = {}
    /\ subscribed = FALSE
    /\ notified = [d \in Devices |-> 0]
    /\ calls = NoCalls
    /\ exist_ret = NotCalled

Next ==
    \/ \E S \in SUBSET Devices : async_setup_entry(NotificationOf(S))
    \/ \E S \in SUBSET Devices : DiscoveryNew(NotificationOf(S))
    \/ \E d \in Devices : ReportVStepModes(d)
    \/ \E d \in Devices : ReportVStepMode(d)
    \/ \E d \in Devices : ReportFeatures(d)

Spec == Init /\ [][Next]_vars

\* One entity, constructed for a device and a descriptor of its type from
\* whatever capability list the device reports then, and the calls on it.
DescriptorsOf(d) ==
    CASE DeviceTypeOf(d) = "AC" -> Range(AC_VSTEP_SELECT) \cup Range(AC_AUTODRY_SELECT)
      [] DeviceTypeOf(d) = "MICROWAVE" -> Range(MICROWAVE_SELECT)
      [] DeviceTypeOf(d) = "WASHER" -> Range(WASH_DEV_SELECT)

InitEntity ==
    /\ \E d \in Devices, vl \in VStepCapabilities, al \in AutoDryCapabilities :
          /\ device = [x \in Devices |->
                IF x = d /\ DeviceTypeOf(d) = "AC"
                THEN [DefaultDevice(x) EXCEPT !.device.vertical_step_modes = vl,
                                              !.device.auto_dry_modes = al]
                ELSE DefaultDevice(x)]
          /\ \E select_desc \in DescriptorsOf(d) :
                /\ select_desc.key = "ac_vertical_wind_step" => al = DefaultDevice(d).device.auto_dry_modes
                /\ select_desc.key = "ac_autodry_mode" => vl = DefaultDevice(d).device.vertical_step_modes
                /\ registered = {LGESelect(device[d], select_desc)}
    /\ subscribed = TRUE
    /\ notified = [d \in Devices |-> 0]
    /\ calls = NoCalls
    /\ exist_ret = NotCalled

NextEntity ==
    \/ \E c \in CallIds, self \in registered :
          \E option \in OptionInputs(self) : SelectOption(c, self, option)
    \/ \E c \in CallIds : SelectOptionResume(c)
    \/ \E c \in CallIds : SelectOptionThrow(c)
    \/ \E c \in CallIds : SelectOptionReturn(c)
    \/ \E self \in registered : HostReads(self)
    \/ \E d \in Devices : ReportAvailable(d)
    \/ \E d \in Devices : ReportVStepModes(d)
    \/ \E d \in Devices : ReportVStepMode(d)
    \/ \E d \in Devices : ReportAutoDryModes(d)
    \/ \E d \in Devices : ReportAutoDryMode(d)
    \/ \E d \in Devices : ReportCourse(d)
    \/ \E d \in Devices : ReportStatus(d)

SpecEntity == InitEntity /\ [][NextEntity]_vars

\* The existence predicate applied to any device, whatever its feature map
\* holds, and any descriptor.
InitExist ==
    /\ \E d \in Devices, F \in SUBSET FeatureKeys :
          device = [x \in Devices |->
                IF x = d THEN [DefaultDevice(x) EXCEPT !.available_features = F]
                ELSE DefaultDevice(x)]
    /\ registered = {}
    /\ subscribed = FALSE
    /\ notified = [d \in Devices |-> 0]
    /\ calls = NoCalls
    /\ exist_ret = NotCalled

NextExist == \E d \in Devices, select_desc \in AllDescriptors : CheckExist(d, select_desc)

SpecExist == InitExist /\ [][NextExist]_vars

\* ------------------------------------------------------------------ claims
VStep == AC_VSTEP_SELECT[1]
AutoDry == AC_AUTODRY_SELECT[1]

\* The device attribute a set_* request writes holds the request's argument.
Reflects(x, req) ==
    CASE req.method = "set_vertical_step_mode" -> x.device.vertical_step_mode = req.arg
      [] req.method = "set_auto_dry_mode" -> x.device.auto_dry_mode = req.arg
      [] req.method = "select_start_course" -> x.device.selected_course = req.arg
      [] req.method = "set_display_scroll_speed" ->
            /\ x.state # None
            /\ DISPLAY_SCROLL_SPEED \in DOMAIN x.state.device_features
            /\ x.state.device_features[DISPLAY_SCROLL_SPEED] = req.arg.v
      [] req.method = "set_defrost_weight_unit" ->
            /\ x.state # None
            /\ WEIGHT_UNIT \in DOMAIN x.state.device_features
            /\ x.state.device_features[WEIGHT_UNIT] = req.arg.v

\* C1: _select_exist returns true for every descriptor with a value function,
\* whatever the feature map holds; for a descriptor without one it returns
\* true exactly when the descriptor's key is a key of the feature map.
C1_SelectExist ==
    exist_ret.called =>
        LET x == device[exist_ret.api]
            d == exist_ret.desc
        IN /\ d.value_fn # None => exist_ret.ret = TRUE
           /\ d.value_fn = None => (exist_ret.ret <=> d.key \in x.available_features)

\* C1 witness: a descriptor with a value function was accepted although its
\* key is missing from the feature map.
C1_Witness ==
    /\ exist_ret.called
    /\ exist_ret.desc.value_fn # None
    /\ exist_ret.desc.key \notin device[exist_ret.api].available_features
    /\ exist_ret.ret = TRUE

\* C2: an entity is available exactly when the device is available and the
\* descriptor's availability predicate, if it has one, holds; it is never
\* available while the device flag is false.
C2_Available ==
    \A self \in registered :
        LET x == device[self.api]
            pred == IF self.desc.available_fn # None THEN available_fn(self.desc, x) ELSE TRUE
        IN /\ available(self, x) = (x.available /\ pred)
           /\ ~x.available => ~available(self, x)

\* C2 witness: the descriptor's predicate holds, the device flag is false.
C2_Witness ==
    \E self \in registered :
        /\ self.desc.available_fn # None
        /\ available_fn(self.desc, device[self.api])
        /\ ~device[self.api].available
        /\ ~available(self, device[self.api])

\* C3: the update is signalled only by a call whose device write completed,
\* and once; a call that failed (in the conversion or in the device) has
\* signalled nothing, and the step in which it fails changes neither the
\* registered entities' option lists nor the device.
C3_SignalOnlyOnSuccess ==
    /\ [](\A c \in CallIds :
            /\ calls[c].pc = "done" => calls[c].signals = 1 /\ calls[c].forwarded
            /\ calls[c].pc \in {"awaiting", "raised"} => calls[c].signals = 0)
    /\ [][\A c \in CallIds :
            /\ (calls'[c].pc = "done" /\ calls[c] # calls'[c]) => calls[c].pc = "awaiting"
            /\ (calls'[c].pc = "raised" /\ calls[c] # calls'[c]) =>
                  /\ device' = device
                  /\ registered' = registered
            /\ (calls[c] = Idle /\ calls'[c].pc = "raised") => ~calls'[c].forwarded]_vars

\* C3 witness: one call completed, another failed in the conversion of its
\* option, before any device write.
C3_Witness ==
    \E c1, c2 \in CallIds :
        /\ calls[c1].pc = "done"
        /\ calls[c1].signals = 1
        /\ calls[c2].pc = "raised"
        /\ ~calls[c2].forwarded
        /\ calls[c2].signals = 0

\* C4: once an AC device reporting auto_dry_modes = [OFF, AI] and
\* auto_dry_mode = AI has been discovered, an auto-dry select is registered
\* for it, with the two labels as options, the AI label as current option,
\* and the OFF label selecting the OFF enum value.
C4_AutoDryRegistered ==
    \A d \in Devices :
        (/\ DeviceTypeOf(d) = "AC"
         /\ notified[d] >= 1
         /\ device[d].device.auto_dry_modes = PList(<<"OFF", "AI">>)
         /\ device[d].device.auto_dry_mode = PEnum("AI"))
        => \E self \in registered :
              /\ self.api = d
              /\ self.desc.key = AutoDry.key
              /\ self.options = <<AUTO_DRY_LABEL["OFF"], AUTO_DRY_LABEL["AI"]>>
              /\ current_option(self, device[d]) = PStr(AUTO_DRY_LABEL["AI"])
              /\ select_option_fn(self.desc, device[d], AUTO_DRY_LABEL["OFF"])
                    = Awaitable("set_auto_dry_mode", PEnum("OFF"))

\* C5: no vertical-wind-step entity is materialized for a device whose
\* vertical_step_modes is empty or absent (such an entity would have
\* captured an empty option list).
C5_NoVStepWithoutModes ==
    [][\A self \in registered' \ registered :
          self.desc.key = VStep.key => bool(device[self.api].device.vertical_step_modes)]_vars

\* C6: when the device completes the write of an option taken from the
\* entity's option list, current_option of the entity is that option.
C6_RoundTrip ==
    [][\A c \in CallIds :
          (calls[c].pc = "awaiting" /\ calls'[c].pc = "done") =>
              \A self \in registered :
                  (self.unique_id = calls[c].uid /\ calls[c].option \in Range(self.options))
                  => current_option(self, device'[self.api]) = PStr(calls[c].option)]_vars

\* C6 witness: a vertical-wind-step call has completed and the entity shows
\* the lowest step, which the device lists.
C6_Witness ==
    \E c \in CallIds, self \in registered :
        /\ calls[c].pc = "done"
        /\ calls[c].uid = self.unique_id
        /\ self.desc.key = VStep.key
        /\ <<"1">> \in Range(self.options)
        /\ device[self.api].device.vertical_step_mode = PInt(1)
        /\ current_option(self, device[self.api]) = PStr(<<"1">>)

\* C7: whenever current_option of a registered entity is not None, it is a
\* member of the entity's option list.
C7_CurrentInOptions ==
    \A self \in registered :
        LET v == current_option(self, device[self.api])
        IN v # None => v.v \in Range(self.options)

\* C8: a discovery notification (the eager one of setup included) leaves
\* every already registered entity registered with the option list it had,
\* and leaves its current option as it was.
C8_DiscoveryKeepsEntities ==
    [][(/\ device' = device
        /\ \E S \in SUBSET Devices :
              async_setup_entry(NotificationOf(S)) \/ DiscoveryNew(NotificationOf(S)))
        => \A self \in registered :
              /\ self \in registered'
              /\ \A other \in registered' : other.unique_id = self.unique_id => other = self
              /\ current_option(self, device'[self.api]) = current_option(self, device[self.api])]_vars

\* C8 witness: a device has been carried by two notifications, and its
\* entity still holds the option list captured by the first although the
\* device now reports another capability list.
C8_Witness ==
    \E self \in registered :
        /\ notified[self.api] >= 2
        /\ self.desc.key = VStep.key
        /\ self.options # <<>>
        /\ self.options # options_fn(self.desc, device[self.api])

\* C9: no step changes the option list of an entity: the registered
\* entities, option lists included, are the same after every step.
C9_OptionsFrozen ==
    [][/\ \A self \in registered : self \in registered'
       /\ \A self \in registered' : self \in registered]_vars

\* C9 witness: a select-option call has completed and the device's
\* capability list has changed since construction, so that the captured list
\* differs from what options_fn would return now.
C9_Witness ==
    \E c \in CallIds, self \in registered :
        /\ calls[c].pc = "done"
        /\ calls[c].uid = self.unique_id
        /\ self.options # options_fn(self.desc, device[self.api])

\* C10: while a call on an entity is awaiting the device, another call on
\* the same entity can start with any option; every awaiting call carries the
\* write of its own option; the completion of a call leaves the device
\* holding that call's value, signals the update for that call, and leaves
\* the other calls as they were.
C10_LastWriteWins ==
    /\ [](\A c1 \in CallIds, self \in registered :
            (calls[c1].pc = "awaiting" /\ calls[c1].uid = self.unique_id) =>
                /\ calls[c1].req = select_option_fn(self.desc, device[self.api], calls[c1].option)
                /\ \A c2 \in CallIds, option \in OptionInputs(self) :
                      calls[c2] = Idle => ENABLED SelectOption(c2, self, option))
    /\ [][\A c \in CallIds :
            (calls[c].pc = "awaiting" /\ calls'[c].pc = "done") =>
                /\ \E self \in registered :
                      self.unique_id = calls[c].uid /\ Reflects(device'[self.api], calls[c].req)
                /\ calls'[c].signals = 1
                /\ \A o \in CallIds \ {c} : calls'[o] = calls[o]]_vars

\* C10 witness: two calls on the same entity await the device with
\* different writes.
C10_Witness ==
    \E c1, c2 \in CallIds :
        /\ c1 # c2
        /\ calls[c1].pc = "awaiting"
        /\ calls[c2].pc = "awaiting"
        /\ calls[c1].uid = calls[c2].uid
        /\ calls[c1].req # calls[c2].req

====
